---------------------------- MODULE Spec2Model ----------------------------
(***************************************************************************)
(* State-machine model of ADMA_Driver/file_io.c: the device-file request   *)
(* router (EvtIoRead / EvtIoWrite), the per-engine DMA submit handlers     *)
(* (EvtIoWriteDma / EvtIoReadDma), DMA cancellation (EvtCancelDma), the    *)
(* user-event read (EvtReadUserEvent / HandleUserEvent) and file creation  *)
(* (EvtDeviceFileCreate).                                                  *)
(*                                                                         *)
(* Framework objects (WDF requests, queues, DMA transactions, KEVENTs)     *)
(* are modelled by the state the driver can observe through the calls it   *)
(* makes.  Engine code that lives outside file_io.c (EngineStop,           *)
(* EnginePollTransfer, the transfer-completion callback, the sequential    *)
(* engine queue) is modelled from the design document.                     *)
(***************************************************************************)
EXTENDS Integers, Sequences, FiniteSets, TLC

\* ------------------------------------------------------------------ bounds

\* number of I/O requests a behaviour issues
MaxReq == 2
\* mapped length of every register BAR, in bytes
BarLength == 6
\* number of BARs the device maps (adma->numBars)
NumBars == 3
\* largest device offset / length a register request carries
MaxOffset == 4
MaxLength == 4
\* capacity of a streaming engine's ring buffer, in bytes
RingCapacity == 3
\* largest length of a streaming read, and most bytes the hardware appends
\* to the ring at once
MaxRingLength == 3
MaxProduce == 2
\* largest address-mode value an IOCTL_ADMA_ADDRMODE_SET carries
MaxAddrMode == 2

\* ------------------------------------------------------- program constants

\* sizeof(BOOLEAN): the only length an event read accepts
SizeofBoolean == 1
\* EvtIoReadEngineRing: timeout.QuadPart = -3 * 10000000, in seconds
RingTimeoutSec == 3
\* sizeof(ULONG): byte count of an IOCTL_ADMA_ADDRMODE_GET answer
SizeofUlong == 4
\* sizeof(ADMA_PERF_DATA): byte count of an IOCTL_ADMA_PERF_GET answer
SizeofPerfData == 40
\* timeout.QuadPart = -3 * 10000000: the event wait gives up after 3 seconds
EventTimeoutSec == 3

Requests == 1..MaxReq

\* DirToDev
Dirs == {"H2C", "C2H"}

\* DEVNODE_TYPE values the switch statements of file_io.c name
DevTypes == {"H2C", "C2H", "AH2C", "AC2H", "USER", "CONTROL", "BYPASS",
             "EVENTS", "UNKNOWN"}
BarTypes == {"USER", "CONTROL", "BYPASS"}
DmaTypes == {"H2C", "C2H", "AH2C", "AC2H"}

\* file names a client may pass to CreateFile; "bogus" is in no table,
\* "NULL" stands for a create without a file name
FileNames == {"h2c_0", "c2h_0", "user", "control", "events_0", "bogus", "NULL"}

NT_SUCCESS(s) == s \in {"STATUS_SUCCESS", "STATUS_TIMEOUT"}

VARIABLES
    adma,      \* ADMA_DEVICE configuration: BAR indices
    file,      \* FILE_CONTEXT per node kind: open, u (bar/engine/event), queue
    created,   \* status each create request was completed with, per file name
    eng,       \* per engine: flags, dmaTransaction, hardware, queue
    req,       \* per request: parameters, handler position, completion record
    event      \* the KEVENT behind user event 0: signaled, and whether it
               \* was ever pulsed

vars == <<adma, file, created, eng, req, event>>

\* ------------------------------------------------------------ initial data

\* ADMA_DEVICE as the probe leaves it: NumBars mapped BARs of BarLength
\* bytes each, the config BAR first; userBarIdx / bypassBarIdx are -1 when
\* the device has no such BAR
NewAdma(userBarIdx, bypassBarIdx) ==
    [configBarIdx |-> 0, userBarIdx |-> userBarIdx, bypassBarIdx |-> bypassBarIdx,
     numBars |-> NumBars, barLength |-> [n \in 0..(NumBars - 1) |-> BarLength]]

NoFile == [open |-> FALSE, u |-> "none", queue |-> "none"]

NoReq == [node |-> "none", op |-> "none", off |-> 0, len |-> 0,
          pc |-> "idle", st |-> "none", cpc |-> "none",
          cancelable |-> FALSE, cancelled |-> FALSE, cancelAt |-> "none",
          completions |-> 0, cstatus |-> "none", info |-> 0,
          forwards |-> 0, rel |-> 0, inited |-> FALSE, executed |-> FALSE,
          loser |-> "none",
          elapsed |-> 0, woke |-> "none", pulsed |-> FALSE, out |-> <<>>,
          cleared |-> FALSE, stale |-> FALSE,
          numBytes |-> 0, avail0 |-> 0, availAt |-> 0,
          ringRead |-> FALSE, fed |-> FALSE,
          code |-> "none", arg |-> 0, engineOp |-> FALSE, hwEvent |-> FALSE,
          access |-> <<>>]

\* ADMA_ENGINE as the code that creates the engines (outside file_io.c)
\* leaves it.  file_io.c sets none of enabled, poll, type, the interrupt
\* state, the ring, the ADMA_CTRL_NON_INCR_ADDR bit (bit) or addressMode
\* (mode) before the first request, so each is a parameter; the
\* transaction, the hardware and the queue start idle and empty.
NewEngine(en, po, irq, ty, ring, bit, mode) ==
    [enabled |-> en, poll |-> po, irq |-> irq,
     tx |-> "idle", txReq |-> 0, hw |-> "idle", hwReq |-> 0,
     queue |-> <<>>, owned |-> 0,
     type |-> ty, ring |-> ring, avail |-> 0,
     nonIncr |-> bit, addressMode |-> mode, perf |-> FALSE]

\* ------------------------------------------------------- request completion

\* WdfRequestComplete / WdfRequestCompleteWithInformation: the completion is
\* counted; the caller sees the status and byte count of the first one
Complete(rq, r, s, inf) ==
    [rq EXCEPT ![r].completions = @ + 1,
               ![r].cstatus = IF rq[r].completions = 0 THEN s ELSE @,
               ![r].info = IF rq[r].completions = 0 THEN inf ELSE @]

\* the sequential queue hands out its next request once the one it
\* presented has been completed
QueueReleaseOwned(en, r) ==
    [e \in Dirs |-> IF en[e].owned = r THEN [en[e] EXCEPT !.owned = 0] ELSE en[e]]

\* ------------------------------------------------------------- file create

\* FileNameLUT: the names GetDevNodeType resolves
FileNameLUT ==
    << [devType |-> "AH2C",    wstr |-> "h2c_0",   channel |-> 0],
       [devType |-> "AC2H",    wstr |-> "c2h_0",   channel |-> 0],
       [devType |-> "USER",    wstr |-> "user",    channel |-> 0],
       [devType |-> "CONTROL", wstr |-> "control", channel |-> 0] >>

\* GetDevNodeType: first table entry whose name matches, else UNKNOWN
GetDevNodeType(fileName) ==
    LET hits == {i \in 1..Len(FileNameLUT) : FileNameLUT[i].wstr = fileName}
    IN  IF hits = {} THEN "UNKNOWN"
        ELSE FileNameLUT[CHOOSE i \in hits : \A j \in hits : i <= j].devType

DirOf(devType) == IF devType \in {"H2C", "AH2C"} THEN "H2C" ELSE "C2H"

\* the switch of EvtDeviceFileCreate: the status of the create and the
\* FILE_CONTEXT it leaves, for a node of the given kind
NodeSetup(devType, ad, en) ==
    CASE devType = "CONTROL" ->
            [status |-> "STATUS_SUCCESS",
             ctx |-> [open |-> TRUE, u |-> "bar_config", queue |-> "none"]]
      [] devType = "USER" ->
            IF ad.userBarIdx < 0
            THEN [status |-> "STATUS_INVALID_PARAMETER", ctx |-> NoFile]
            ELSE [status |-> "STATUS_SUCCESS",
                  ctx |-> [open |-> TRUE, u |-> "bar_user", queue |-> "none"]]
      [] devType = "BYPASS" ->
            IF ad.bypassBarIdx < 0
            THEN [status |-> "STATUS_INVALID_PARAMETER", ctx |-> NoFile]
            ELSE [status |-> "STATUS_SUCCESS",
                  ctx |-> [open |-> TRUE, u |-> "bar_bypass", queue |-> "none"]]
      [] devType \in DmaTypes ->
            IF en[DirOf(devType)].enabled = FALSE
            THEN [status |-> "STATUS_INVALID_PARAMETER", ctx |-> NoFile]
            ELSE [status |-> "STATUS_SUCCESS",
                  ctx |-> [open |-> TRUE, u |-> DirOf(devType),
                           queue |-> DirOf(devType)]]
      [] devType = "EVENTS" ->
            [status |-> "STATUS_SUCCESS",
             ctx |-> [open |-> TRUE, u |-> "event_0", queue |-> "none"]]
      [] OTHER ->
            [status |-> "STATUS_SUCCESS",
             ctx |-> [open |-> TRUE, u |-> "none", queue |-> "none"]]

\* EngineRingSetup(engine): the ring of a streaming engine is set up empty
EngineRingSetup(e) == [e EXCEPT !.ring = TRUE, !.avail = 0]

\* EngineRingTeardown(engine): the ring is dropped with what it holds
EngineRingTeardown(e) == [e EXCEPT !.ring = FALSE, !.avail = 0]

\* EngineDisableInterrupt / EngineEnableInterrupt by engine->poll: done for
\* the H2C and C2H kinds only, compiled out (#if 0) for AH2C and AC2H
InterruptAfterCreate(devType, e) ==
    IF devType \in {"H2C", "C2H"} THEN ~e.poll ELSE e.irq

\* the DMA cases of the switch on the engine: EngineRingSetup for a C2H kind
\* on a streaming engine, then the interrupt by engine->poll
EngineAfterCreate(devType, e) ==
    LET e1 == IF devType = "C2H" /\ e.type = "ST" THEN EngineRingSetup(e) ELSE e
    IN  [e1 EXCEPT !.irq = InterruptAfterCreate(devType, e1)]

\* mutant of EvtDeviceFileCreate: the ID_DEVNODE_UNKNOWN test is missing, so
\* an unrecognized name falls into the default case of the switch
EvtDeviceFileCreateNoUnknownCheck(fileName) ==
    /\ LET devType == GetDevNodeType(fileName)
           setup == NodeSetup(devType, adma, eng)
       IN  IF fileName = "NULL"
           THEN /\ created' = [created EXCEPT ![fileName] = "STATUS_INVALID_PARAMETER"]
                /\ UNCHANGED <<file, eng>>
           ELSE /\ created' = [created EXCEPT ![fileName] = setup.status]
                /\ file' = IF setup.ctx.open
                           THEN [file EXCEPT ![devType] = setup.ctx]
                           ELSE file
                /\ eng' = IF setup.ctx.open /\ devType \in DmaTypes
                          THEN [eng EXCEPT ![DirOf(devType)] =
                                   EngineAfterCreate(devType, @)]
                          ELSE eng
    /\ UNCHANGED <<adma, req, event>>

\* EvtDeviceFileCreate: created keeps the status the latest create of the
\* name was completed with; a name can be created again
EvtDeviceFileCreate(fileName) ==
    /\ LET devType == GetDevNodeType(fileName)
           setup == NodeSetup(devType, adma, eng)
       IN  IF fileName = "NULL" \/ devType = "UNKNOWN"
           THEN /\ created' = [created EXCEPT ![fileName] = "STATUS_INVALID_PARAMETER"]
                /\ UNCHANGED <<file, eng>>
           ELSE /\ created' = [created EXCEPT ![fileName] = setup.status]
                /\ file' = IF setup.ctx.open
                           THEN [file EXCEPT ![devType] = setup.ctx]
                           ELSE file
                /\ eng' = IF setup.ctx.open /\ devType \in DmaTypes
                          THEN [eng EXCEPT ![DirOf(devType)] =
                                   EngineAfterCreate(devType, @)]
                          ELSE eng
    /\ UNCHANGED <<adma, req, event>>


\* EvtFileCleanup: the last handle of the file is closed, possibly with
\* requests of the file still outstanding.  The callback tears the ring down
\* for a C2H kind on a streaming engine and leaves the file context as it
\* is; the file takes no further request.
EvtFileCleanup(devType) ==
    /\ file[devType].open
    /\ eng' = IF devType = "C2H" /\ eng[file[devType].u].type = "ST"
              THEN [eng EXCEPT ![file[devType].u] = EngineRingTeardown(@)]
              ELSE eng
    /\ file' = [file EXCEPT ![devType].open = FALSE]
    /\ UNCHANGED <<adma, created, req, event>>

\* EvtFileClose: called after cleanup once every request of the file has
\* been completed; the callback only traces, and the framework then deletes
\* the file object with its context
EvtFileClose(devType) ==
    /\ ~file[devType].open
    /\ \A r \in Requests : req[r].node # devType
    /\ file[devType] # NoFile
    /\ file' = [file EXCEPT ![devType] = NoFile]
    /\ UNCHANGED <<adma, created, eng, req, event>>

\* ------------------------------------------------------ register (BAR) access

\* ValidateBarParams(adma, nBar, offset, length): defined in file_io.c,
\* called from nowhere in it.  (In the code offset + length is a size_t sum;
\* the offsets and lengths explored are far below the point where it wraps.)
ValidateBarParams(ad, nBar, offset, length) ==
    IF length = 0 THEN "STATUS_INVALID_DEVICE_REQUEST"
    ELSE IF nBar >= ad.numBars THEN "STATUS_INVALID_DEVICE_REQUEST"
    ELSE IF offset + length >= ad.barLength[nBar] THEN "STATUS_INVALID_DEVICE_REQUEST"
    ELSE "STATUS_SUCCESS"

\* the index into adma->bar the create of a register node takes
BarIndex(ad, devType) ==
    CASE devType = "CONTROL" -> ad.configBarIdx
      [] devType = "USER" -> ad.userBarIdx
      [] devType = "BYPASS" -> ad.bypassBarIdx

\* mutant of RegisterBufferAccess: every request is served byte by byte
RegisterBufferAccessBytewise(kind, bar, offset, length) ==
    [kind |-> kind, bar |-> bar, addr |-> offset, width |-> 1, count |-> length]

\* READ_/WRITE_REGISTER_BUFFER_ULONG / _USHORT / _UCHAR (the count is
\* (ULONG)length / width; the length of a read or write IRP is a ULONG, so
\* the cast loses nothing): the width and the
\* count of the accesses made for a request of the given length
RegisterBufferAccess(kind, bar, offset, length) ==
    IF length % 4 = 0
    THEN [kind |-> kind, bar |-> bar, addr |-> offset, width |-> 4,
          count |-> length \div 4]
    ELSE IF length % 2 = 0
    THEN [kind |-> kind, bar |-> bar, addr |-> offset, width |-> 2,
          count |-> length \div 2]
    ELSE [kind |-> kind, bar |-> bar, addr |-> offset, width |-> 1,
          count |-> length]

\* ReadBarToRequest: memOk is the outcome of WdfRequestRetrieveOutputMemory
ReadBarToRequest(rq, r, bar, memOk) ==
    IF rq[r].len = 0
    THEN [status |-> "STATUS_INVALID_DEVICE_REQUEST", req |-> rq]
    ELSE IF ~memOk
    THEN [status |-> "STATUS_INSUFFICIENT_RESOURCES", req |-> rq]
    ELSE [status |-> "STATUS_SUCCESS",
          req |-> [rq EXCEPT ![r].access =
                      <<RegisterBufferAccess("read", bar, rq[r].off, rq[r].len)>>]]

\* WriteBarFromRequest: memOk is the outcome of WdfRequestRetrieveInputMemory
WriteBarFromRequest(rq, r, bar, memOk) ==
    IF rq[r].len = 0
    THEN [status |-> "STATUS_INVALID_DEVICE_REQUEST", req |-> rq]
    ELSE IF ~memOk
    THEN [status |-> "STATUS_INSUFFICIENT_RESOURCES", req |-> rq]
    ELSE [status |-> "STATUS_SUCCESS",
          req |-> [rq EXCEPT ![r].access =
                      <<RegisterBufferAccess("write", bar, rq[r].off, rq[r].len)>>]]

\* ------------------------------------------------------------------- router

\* requests are issued in the order of their numbers
Issuable(r) ==
    req[r].pc = "idle" /\ (IF r = 1 THEN TRUE ELSE req[r - 1].pc # "idle")

NewRequest(r, devType, op, offset, length) ==
    [req EXCEPT ![r].node = devType, ![r].op = op, ![r].off = offset, ![r].len = length]

\* mutant of ForwardToIoQueue: the router calls the DMA handler itself
\* instead of forwarding the request to the engine queue
ForwardInline(rq, en, r, q, ok) ==
    [status |-> "STATUS_SUCCESS",
     req |-> [rq EXCEPT ![r].forwards = @ + 1, ![r].pc = "init"],
     eng |-> en]

\* WdfRequestForwardToIoQueue(request, file->queue); ok is its outcome
ForwardToIoQueue(rq, en, r, q, ok) ==
    IF ok
    THEN [status |-> "STATUS_SUCCESS",
          req |-> [rq EXCEPT ![r].forwards = @ + 1, ![r].pc = "queued"],
          eng |-> [en EXCEPT ![q].queue = Append(@, r)]]
    ELSE [status |-> "STATUS_WDF_BUSY", req |-> rq, eng |-> en]

\* mutant of BarComplete: the byte count reported is always 0
BarCompleteNoCount(rq, r, status) ==
    IF NT_SUCCESS(status)
    THEN [Complete(rq, r, status, 0) EXCEPT ![r].pc = "ret"]
    ELSE rq

\* the synchronous completion of a register request:
\* if (NT_SUCCESS(status)) WdfRequestCompleteWithInformation(request, status, length)
BarComplete(rq, r, status) ==
    IF NT_SUCCESS(status)
    THEN [Complete(rq, r, status, rq[r].len) EXCEPT ![r].pc = "ret"]
    ELSE rq

\* mutant of RouterTail: the request is completed whatever the status is
RouterTailAlways(rq, r, status) ==
    [Complete(rq, r, status, 0) EXCEPT ![r].pc = "ret"]

\* the end of EvtIoRead and of EvtIoWrite:
\* if (!NT_SUCCESS(status)) WdfRequestComplete(request, status)
RouterTail(rq, r, status) ==
    IF ~NT_SUCCESS(status)
    THEN [Complete(rq, r, status, 0) EXCEPT ![r].pc = "ret"]
    ELSE rq

\* mutant of EventLengthOk: a shorter read is let through as well
EventLengthAtMost(length) == length <= SizeofBoolean

\* KeClearEvent(event)
KeClearEvent(ev) == [ev EXCEPT !.signaled = FALSE]

\* EvtReadUserEvent: if (length != sizeof(BOOLEAN)) the read is refused
EventLengthOk(length) == length = SizeofBoolean

\* mutant of ReadForwards: a read is forwarded on every DMA node kind
ReadForwardsAnyDma(devType) == devType \in DmaTypes

\* the devType cases of EvtIoRead that forward to the engine queue
ReadForwards(devType) == devType \in {"C2H", "AC2H"}

\* the devType cases of EvtIoWrite that forward to the engine queue
WriteForwards(devType) == devType \in {"H2C", "AH2C"}

\* EvtIoRead; ok is the outcome of the framework call the case makes.  For an
\* EVENTS node it runs EvtReadUserEvent up to KeClearEvent; the wait follows.
EvtIoRead(r, devType, offset, length, ok) ==
    /\ Issuable(r)
    /\ file[devType].open
    /\ LET rq == NewRequest(r, devType, "read", offset, length)
       IN  CASE ReadForwards(devType) ->
                  LET f == ForwardToIoQueue(rq, eng, r, file[devType].queue, ok)
                  IN  /\ req' = RouterTail(f.req, r, f.status)
                      /\ eng' = f.eng
                      /\ UNCHANGED event
             [] devType \in BarTypes ->
                  LET b == ReadBarToRequest(rq, r, file[devType].u, ok)
                  IN  /\ req' = RouterTail(BarComplete(b.req, r, b.status), r, b.status)
                      /\ UNCHANGED <<eng, event>>
             [] devType = "EVENTS" ->
                  IF ~EventLengthOk(length)
                  THEN /\ req' = RouterTail(rq, r, "STATUS_INVALID_PARAMETER")
                       /\ UNCHANGED <<eng, event>>
                  ELSE /\ req' = [rq EXCEPT ![r].pc = "evCleared", ![r].cleared = TRUE,
                                            ![r].stale = event.pulsed]
                       /\ event' = KeClearEvent(event)
                       /\ UNCHANGED eng
             [] OTHER ->
                  /\ req' = RouterTail(rq, r, "STATUS_INVALID_DEVICE_REQUEST")
                  /\ UNCHANGED <<eng, event>>
    /\ UNCHANGED <<adma, file, created>>

\* EvtIoWrite
EvtIoWrite(r, devType, offset, length, ok) ==
    /\ Issuable(r)
    /\ file[devType].open
    /\ LET rq == NewRequest(r, devType, "write", offset, length)
       IN  CASE WriteForwards(devType) ->
                  LET f == ForwardToIoQueue(rq, eng, r, file[devType].queue, ok)
                  IN  /\ req' = RouterTail(f.req, r, f.status)
                      /\ eng' = f.eng
             [] devType \in BarTypes ->
                  LET b == WriteBarFromRequest(rq, r, file[devType].u, ok)
                  IN  /\ req' = RouterTail(BarComplete(b.req, r, b.status), r, b.status)
                      /\ UNCHANGED eng
             [] OTHER ->
                  /\ req' = RouterTail(rq, r, "STATUS_INVALID_DEVICE_REQUEST")
                  /\ UNCHANGED eng
    /\ UNCHANGED <<adma, file, created, event>>

\* ------------------------------------------------------------- user events

\* KeWaitForSingleObject entered: a signaled event satisfies the wait at
\* once, otherwise the thread blocks
EvtReadUserEventWait(r) ==
    /\ req[r].pc = "evCleared"
    /\ req' = IF event.signaled
              THEN [req EXCEPT ![r].pc = "evWoken", ![r].woke = "signaled"]
              ELSE [req EXCEPT ![r].pc = "evWaiting", ![r].elapsed = 0]
    /\ UNCHANGED <<adma, file, created, eng, event>>

\* one second passes for a blocked reader
Tick(r) ==
    /\ req[r].pc = "evWaiting"
    /\ req[r].elapsed < EventTimeoutSec
    /\ req' = [req EXCEPT ![r].elapsed = @ + 1]
    /\ UNCHANGED <<adma, file, created, eng, event>>

\* KeWaitForSingleObject returns STATUS_TIMEOUT once the timeout has passed
EvtReadUserEventTimeout(r) ==
    /\ req[r].pc = "evWaiting"
    /\ req[r].elapsed = EventTimeoutSec
    /\ req' = [req EXCEPT ![r].pc = "evWoken", ![r].woke = "timeout"]
    /\ UNCHANGED <<adma, file, created, eng, event>>

\* KePulseEvent: every thread waiting on the event is released and the event
\* is left non-signaled; a thread that is not yet waiting sees nothing
KePulseEvent(rq) ==
    [r \in Requests |->
        IF rq[r].pc = "evWaiting"
        THEN [rq[r] EXCEPT !.pc = "evWoken", !.woke = "signaled", !.pulsed = TRUE]
        ELSE rq[r]]

\* mutant of EventAfterPulse: the event stays signaled, as after KeSetEvent
EventAfterSet(ev) == [ev EXCEPT !.signaled = TRUE, !.pulsed = TRUE]

\* the KEVENT after KePulseEvent: non-signaled
EventAfterPulse(ev) == [ev EXCEPT !.signaled = FALSE, !.pulsed = TRUE]

\* record on every event read that has cleared the event and has not
\* returned from its wait that the hardware signalled meanwhile
NoteHardwareEvent(rq) ==
    [r \in Requests |->
        IF rq[r].pc \in {"evCleared", "evWaiting"}
        THEN [rq[r] EXCEPT !.hwEvent = TRUE]
        ELSE rq[r]]

\* HandleUserEvent: the hardware signals user event 0
HandleUserEvent ==
    /\ req' = KePulseEvent(NoteHardwareEvent(req))
    /\ event' = EventAfterPulse(event)
    /\ UNCHANGED <<adma, file, created, eng>>

\* WdfRequestUnmarkCancelable: STATUS_CANCELLED for a request that has been
\* cancelled (its cancel routine was or is being called)
WdfRequestUnmarkCancelable(rq, r) ==
    IF rq[r].cancelled THEN "STATUS_CANCELLED" ELSE "STATUS_SUCCESS"

\* EvtCancelReadUserEvent: pulses the event, unmarks the request and
\* completes it with STATUS_CANCELLED unless the unmark returned
\* STATUS_CANCELLED.  It is registered nowhere: the
\* WdfRequestMarkCancelableEx call of EvtReadUserEvent is commented out, so
\* no step of the driver takes it.
EvtCancelReadUserEvent(r) ==
    /\ req[r].cancelable
    /\ LET pulsed == KePulseEvent(req)
           status == WdfRequestUnmarkCancelable(req, r)
           done == IF status # "STATUS_CANCELLED"
                   THEN Complete(pulsed, r, "STATUS_CANCELLED", 0)
                   ELSE pulsed
       IN  req' = [done EXCEPT ![r].cancelable = FALSE]
    /\ event' = EventAfterPulse(event)
    /\ UNCHANGED <<adma, file, created, eng>>

\* The client cancels an event read that is inside EvtReadUserEvent.  The
\* request was never marked cancelable, so the framework only flags it.
UserCancelEventRead(r) ==
    /\ req[r].node = "EVENTS"
    /\ req[r].pc \in {"evCleared", "evWaiting", "evWoken"}
    /\ ~req[r].cancelled
    /\ req' = [req EXCEPT ![r].cancelled = TRUE,
                          ![r].cancelAt = IF req[r].pc = "evWaiting"
                                          THEN "waiting" ELSE "early",
                          ![r].cpc = IF req[r].cancelable THEN "stop" ELSE @]
    /\ UNCHANGED <<adma, file, created, eng, event>>

\* BOOLEAN eventValue = TRUE; if (status == STATUS_TIMEOUT) eventValue = FALSE
EventValue(woke) == woke # "timeout"

\* EvtReadUserEvent after the wait, and the return into EvtIoRead: memOk is
\* the outcome of WdfRequestRetrieveOutputMemory.  The buffer of a read of
\* SizeofBoolean bytes has that size, so bufSize == sizeof(BOOLEAN) and the
\* copy fits.
EvtReadUserEventOutput(r, memOk) ==
    /\ req[r].pc = "evWoken"
    /\ req' = IF ~memOk
              THEN RouterTail(req, r, "STATUS_INSUFFICIENT_RESOURCES")
              ELSE RouterTail(
                     [Complete([req EXCEPT ![r].out = Append(@, EventValue(req[r].woke))],
                               r, "STATUS_SUCCESS", req[r].len)
                        EXCEPT ![r].pc = "ret"],
                     r, "STATUS_SUCCESS")
    /\ UNCHANGED <<adma, file, created, eng, event>>


\* ---------------------------------------------------------- DMA: the queue

\* queue->engine of the queue a request was forwarded to
EngineOf(r) == file[req[r].node].queue

\* the handler of an engine queue: EvtIoReadEngineRing on a streaming C2H
\* engine, EvtIoWriteDma / EvtIoReadDma otherwise
QueueHandler(e) ==
    IF e = "C2H" /\ eng[e].type = "ST" THEN "ring" ELSE "init"

\* The engine queue presents its next request to its handler once the
\* request it presented before is completed.
QueueDispatch(e) ==
    /\ eng[e].queue # <<>>
    /\ eng[e].owned = 0
    /\ LET r == Head(eng[e].queue)
       IN  /\ eng' = [eng EXCEPT ![e].queue = Tail(@), ![e].owned = r]
           /\ req' = [req EXCEPT ![r].pc = QueueHandler(e)]
    /\ UNCHANGED <<adma, file, created, event>>

\* ------------------------------------------------- DMA: the submit handlers

\* WdfDmaTransactionInitializeUsingRequest(engine->dmaTransaction, Request,
\* ...): ok is the framework's outcome; a transaction that is still
\* initialized or executing cannot be initialized again
EvtIoDmaInitialize(r, ok) ==
    /\ req[r].pc = "init"
    /\ LET e == EngineOf(r)
       IN  IF ok /\ eng[e].tx = "idle"
           THEN /\ eng' = [eng EXCEPT ![e].tx = "initialized", ![e].txReq = r]
                /\ req' = [req EXCEPT ![r].pc = "mark", ![r].st = "STATUS_SUCCESS",
                                      ![r].inited = TRUE]
           ELSE /\ req' = [req EXCEPT ![r].pc = "errRelease",
                              ![r].st = IF ok THEN "STATUS_INVALID_DEVICE_STATE"
                                        ELSE "STATUS_INSUFFICIENT_RESOURCES"]
                /\ UNCHANGED eng
    /\ UNCHANGED <<adma, file, created, event>>

\* WdfRequestMarkCancelableEx(Request, EvtCancelDma): fails with
\* STATUS_CANCELLED when the request was cancelled before
EvtIoDmaMarkCancelable(r) ==
    /\ req[r].pc = "mark"
    /\ req' = IF req[r].cancelled
              THEN [req EXCEPT ![r].pc = "errRelease", ![r].st = "STATUS_CANCELLED"]
              ELSE [req EXCEPT ![r].pc = "exec", ![r].cancelable = TRUE]
    /\ UNCHANGED <<adma, file, created, eng, event>>

\* where the handler goes after a successful WdfDmaTransactionExecute:
\* EvtIoWriteDma polls if engine->poll, EvtIoReadDma has the poll compiled
\* out (#if 0) and returns
AfterExecute(e) ==
    IF e = "H2C" /\ eng[e].poll THEN "poll" ELSE "ret"

\* WdfDmaTransactionExecute(engine->dmaTransaction, engine): ok is the
\* framework's outcome; only an initialized transaction can be executed.  On
\* success the transaction programs the hardware for its request.
EvtIoDmaExecute(r, ok) ==
    /\ req[r].pc = "exec"
    /\ LET e == EngineOf(r)
           owner == eng[e].txReq
       IN  IF ok /\ eng[e].tx = "initialized"
           THEN /\ eng' = [eng EXCEPT ![e].tx = "executing", ![e].hw = "running",
                                      ![e].hwReq = owner]
                /\ req' = [req EXCEPT ![r].pc = AfterExecute(e),
                                      ![r].executed = TRUE]
           ELSE /\ req' = [req EXCEPT ![r].pc = "errRelease",
                              ![r].st = IF ok THEN "STATUS_INVALID_DEVICE_STATE"
                                        ELSE "STATUS_INSUFFICIENT_RESOURCES"]
                /\ UNCHANGED eng
    /\ UNCHANGED <<adma, file, created, event>>

\* ErrExit: WdfDmaTransactionRelease(engine->dmaTransaction)
EvtIoDmaErrRelease(r) ==
    /\ req[r].pc = "errRelease"
    /\ eng' = [eng EXCEPT ![EngineOf(r)].tx = "idle", ![EngineOf(r)].txReq = 0]
    /\ req' = [req EXCEPT ![r].pc = "errComplete", ![r].rel = @ + 1]
    /\ UNCHANGED <<adma, file, created, event>>

\* ErrExit: WdfRequestComplete(Request, status)
EvtIoDmaErrComplete(r) ==
    /\ req[r].pc = "errComplete"
    /\ req' = [Complete(req, r, req[r].st, 0) EXCEPT ![r].pc = "ret", ![r].st = "ErrExit"]
    /\ eng' = QueueReleaseOwned(eng, r)
    /\ UNCHANGED <<adma, file, created, event>>

\* ------------------------------------------- DMA: hardware and completion

\* the hardware finishes or fails the transfer it was started for
HwFinish(e, ok) ==
    /\ eng[e].hw = "running"
    /\ eng' = [eng EXCEPT ![e].hw = IF ok THEN "done" ELSE "error"]
    /\ UNCHANGED <<adma, file, created, req, event>>

HwStatus(h) == IF h = "done" THEN "STATUS_SUCCESS" ELSE "STATUS_UNSUCCESSFUL"

\* The terminal transition of the completion path: it unmarks the request
\* of the executing transaction; if that succeeds it releases the
\* transaction and completes the request, otherwise the cancel path owns the
\* request and the completion path does nothing.
Finalize(e) ==
    LET r == eng[e].txReq
    IN  IF eng[e].tx = "executing" /\ r # 0 /\ req[r].cancelable
        THEN [req |-> Complete([req EXCEPT ![r].cancelable = FALSE, ![r].rel = @ + 1],
                               r, HwStatus(eng[e].hw), req[r].len),
              eng |-> QueueReleaseOwned(
                        [eng EXCEPT ![e].tx = "idle", ![e].txReq = 0,
                                    ![e].hw = "idle", ![e].hwReq = 0], r)]
        ELSE [req |-> IF eng[e].hwReq # 0 /\ req[eng[e].hwReq].pc # "retired"
                      THEN [req EXCEPT ![eng[e].hwReq].loser = "completion"]
                      ELSE req,
              eng |-> [eng EXCEPT ![e].hw = "idle", ![e].hwReq = 0]]

\* the interrupt-driven completion callback
DmaTransferComplete(e) ==
    /\ eng[e].hw \in {"done", "error"}
    /\ eng[e].irq
    /\ req' = Finalize(e).req
    /\ eng' = Finalize(e).eng
    /\ UNCHANGED <<adma, file, created, event>>

\* EnginePollTransfer: the submitting thread waits until the hardware is no
\* longer running, then performs the terminal transition itself
EvtIoDmaPoll(r) ==
    /\ req[r].pc = "poll"
    /\ eng[EngineOf(r)].hw # "running"
    /\ req' = [Finalize(EngineOf(r)).req EXCEPT ![r].pc = "ret"]
    /\ eng' = Finalize(EngineOf(r)).eng
    /\ UNCHANGED <<adma, file, created, event>>

\* ---------------------------------------------------------- DMA: cancel

\* The client cancels a pending request.  A request still in the queue is
\* completed by the framework; one marked cancelable gets its EvtCancelDma
\* called (and is no longer cancelable); otherwise the request is only
\* flagged, and a later WdfRequestMarkCancelableEx fails.
UserCancel(r) ==
    /\ req[r].node \in DmaTypes
    /\ req[r].pc \notin {"idle", "retired"}
    /\ req[r].completions = 0
    /\ ~req[r].cancelled
    /\ IF req[r].pc = "queued"
       THEN /\ req' = [Complete(req, r, "STATUS_CANCELLED", 0)
                         EXCEPT ![r].pc = "ret", ![r].cancelled = TRUE,
                                ![r].cancelAt = "early"]
            /\ eng' = [eng EXCEPT ![EngineOf(r)].queue =
                          SelectSeq(@, LAMBDA x : x # r)]
       ELSE /\ req' = [req EXCEPT ![r].cancelled = TRUE,
                                  ![r].cancelAt = IF req[r].pc \in {"poll", "ret"}
                                                  THEN "submitted" ELSE "early",
                                  ![r].cancelable = FALSE,
                                  ![r].cpc = IF req[r].cancelable THEN "stop" ELSE @]
            /\ UNCHANGED eng
    /\ UNCHANGED <<adma, file, created, event>>

\* mutant of EvtCancelDmaStop: the engine is not stopped
EvtCancelDmaNoStop(r) ==
    /\ req[r].cpc = "stop"
    /\ req' = [req EXCEPT ![r].cpc = "release"]
    /\ UNCHANGED <<adma, file, created, eng, event>>

\* EvtCancelDma: EngineStop(queue->engine), then WdfRequestUnmarkCancelable,
\* whose status is only traced
EvtCancelDmaStop(r) ==
    /\ req[r].cpc = "stop"
    /\ eng' = [eng EXCEPT ![EngineOf(r)].hw = "idle"]
    /\ req' = [req EXCEPT ![r].cpc = "release"]
    /\ UNCHANGED <<adma, file, created, event>>

\* mutant of EvtCancelDmaRelease: the transaction is not released
EvtCancelDmaNoRelease(r) ==
    /\ req[r].cpc = "release"
    /\ req' = [req EXCEPT ![r].cpc = "complete"]
    /\ UNCHANGED <<adma, file, created, eng, event>>

\* EvtCancelDma: WdfDmaTransactionRelease(queue->engine->dmaTransaction)
EvtCancelDmaRelease(r) ==
    /\ req[r].cpc = "release"
    /\ eng' = [eng EXCEPT ![EngineOf(r)].tx = "idle", ![EngineOf(r)].txReq = 0]
    /\ req' = [req EXCEPT ![r].cpc = "complete", ![r].rel = @ + 1]
    /\ UNCHANGED <<adma, file, created, event>>

\* EvtCancelDma: WdfRequestComplete(request, STATUS_CANCELLED)
EvtCancelDmaComplete(r) ==
    /\ req[r].cpc = "complete"
    /\ req' = [Complete(req, r, "STATUS_CANCELLED", 0) EXCEPT ![r].cpc = "done"]
    /\ eng' = QueueReleaseOwned(eng, r)
    /\ UNCHANGED <<adma, file, created, event>>

\* ---------------------------------------------------------- device control

\* the control codes of adma_public.h the switch names, and any other code
IoControlCodes ==
    {"IOCTL_ADMA_PERF_START", "IOCTL_ADMA_PERF_GET", "IOCTL_ADMA_ADDRMODE_GET",
     "IOCTL_ADMA_ADDRMODE_SET", "IOCTL_OTHER"}

\* GetQueueContext(file->queue)->engine.  EvtDeviceFileCreate sets
\* file->queue for DMA nodes only; on any other node the handle was never
\* set, and what the lookup gives is not defined: the framework stops the
\* system on the invalid handle ("bugcheck"), or a context without an
\* engine is found ("NULL").
QueueEngineOutcomes(q) ==
    IF q \in Dirs THEN {q} ELSE {"bugcheck", "NULL"}

\* mutant of IoctlStatus: a control code the switch does not name succeeds
IoctlStatusLenient(code, memOk) ==
    IF ~memOk /\ code \in {"IOCTL_ADMA_PERF_GET", "IOCTL_ADMA_ADDRMODE_GET",
                            "IOCTL_ADMA_ADDRMODE_SET"}
    THEN "STATUS_INSUFFICIENT_RESOURCES"
    ELSE "STATUS_SUCCESS"

\* the status the switch of EvtIoDeviceControl ends with on an engine-bound
\* node: memOk is the outcome of retrieving and copying the request memory
IoctlStatus(code, memOk) ==
    CASE code = "IOCTL_ADMA_PERF_START" -> "STATUS_SUCCESS"
      [] code \in {"IOCTL_ADMA_PERF_GET", "IOCTL_ADMA_ADDRMODE_GET",
                   "IOCTL_ADMA_ADDRMODE_SET"} ->
            IF memOk THEN "STATUS_SUCCESS" ELSE "STATUS_INSUFFICIENT_RESOURCES"
      [] OTHER -> "STATUS_NOT_SUPPORTED"

\* the byte count a successful control request is completed with
IoctlInformation(code) ==
    CASE code = "IOCTL_ADMA_PERF_GET" -> SizeofPerfData
      [] code = "IOCTL_ADMA_ADDRMODE_GET" -> SizeofUlong
      [] OTHER -> 0

\* IoctlGetAddrMode: (engine->regs->control & ADMA_CTRL_NON_INCR_ADDR) != 0
IoctlGetAddrMode(e) == IF e.nonIncr THEN 1 ELSE 0

\* mutant of IoctlSetAddrMode: the control bit is written, engine->addressMode
\* is left as it was
IoctlSetAddrModeNoMirror(e, addrMode) ==
    [e EXCEPT !.nonIncr = (addrMode # 0)]

\* IoctlSetAddrMode: controlW1S / controlW1C by addrMode, then
\* engine->addressMode = addrMode
IoctlSetAddrMode(e, addrMode) ==
    [e EXCEPT !.nonIncr = (addrMode # 0), !.addressMode = addrMode]

\* whether the control request calls into the engine or writes one of its
\* registers: EngineStartPerf; EngineGetPerf, which IoctlGetPerf calls
\* before it retrieves the output memory; the controlW1S / controlW1C write
\* of IoctlSetAddrMode, made once the input was copied.  IoctlGetAddrMode
\* only reads the control register.
IoctlEngineOp(code, memOk) ==
    CASE code = "IOCTL_ADMA_PERF_START" -> TRUE
      [] code = "IOCTL_ADMA_PERF_GET" -> TRUE
      [] code = "IOCTL_ADMA_ADDRMODE_SET" -> memOk
      [] OTHER -> FALSE

\* what a successful control request does to its engine
IoctlEngine(e, code, addrMode) ==
    CASE code = "IOCTL_ADMA_PERF_START" -> [e EXCEPT !.perf = TRUE]
      [] code = "IOCTL_ADMA_ADDRMODE_SET" -> IoctlSetAddrMode(e, addrMode)
      [] OTHER -> e

\* no handler runs once the system has been stopped
Running == \A r \in Requests : req[r].pc # "bugcheck"

\* EvtIoDeviceControl: code is IoControlCode, addrMode the ULONG an
\* IOCTL_ADMA_ADDRMODE_SET carries, found the outcome of the engine lookup
EvtIoDeviceControl(r, devType, code, addrMode, memOk, found) ==
    /\ Running
    /\ Issuable(r)
    /\ file[devType].open
    /\ found \in QueueEngineOutcomes(file[devType].queue)
    /\ LET rq == [NewRequest(r, devType, "control", 0, 0) EXCEPT
                    ![r].code = code,
                    ![r].arg = IF code = "IOCTL_ADMA_ADDRMODE_SET" THEN addrMode ELSE 0]
       IN  CASE found = "bugcheck" ->
                  /\ req' = [rq EXCEPT ![r].pc = "bugcheck"]
                  /\ UNCHANGED eng
             [] found = "NULL" ->
                  /\ req' = RouterTail(rq, r, "STATUS_INVALID_PARAMETER")
                  /\ UNCHANGED eng
             [] OTHER ->
                  LET status == IoctlStatus(code, memOk)
                  IN  IF NT_SUCCESS(status)
                      THEN /\ req' = [Complete(
                                        [rq EXCEPT ![r].out =
                                            IF code = "IOCTL_ADMA_ADDRMODE_GET"
                                            THEN <<IoctlGetAddrMode(eng[found])>>
                                            ELSE <<>>,
                                                  ![r].engineOp = IoctlEngineOp(code, memOk)],
                                        r, status, IoctlInformation(code))
                                        EXCEPT ![r].pc = "ret"]
                           /\ eng' = [eng EXCEPT ![found] = IoctlEngine(@, code, addrMode)]
                      ELSE /\ req' = RouterTail(
                                        [rq EXCEPT ![r].engineOp = IoctlEngineOp(code, memOk)],
                                        r, status)
                           /\ UNCHANGED eng
    /\ UNCHANGED <<adma, file, created, event>>

\* ------------------------------------------------- streaming ring reads

\* EngineRingCopyBytesToMemory copies min(maxLength, available) bytes
RingCopyCount(maxLength, available) ==
    IF maxLength <= available THEN maxLength ELSE available

\* EvtIoReadEngineRing up to the call of EngineRingCopyBytesToMemory: memOk is
\* the outcome of WdfRequestRetrieveOutputMemory.  ringRead and avail0 record
\* that the handler ran and what the ring held when it began.
EvtIoReadEngineRing(r, memOk) ==
    /\ req[r].pc = "ring"
    /\ LET rq == [req EXCEPT ![r].ringRead = TRUE,
                             ![r].avail0 = eng[EngineOf(r)].avail]
       IN  IF ~memOk
           THEN /\ req' = [Complete(rq, r, "STATUS_INSUFFICIENT_RESOURCES", 0)
                             EXCEPT ![r].pc = "ret"]
                /\ eng' = QueueReleaseOwned(eng, r)
           ELSE /\ req' = [rq EXCEPT ![r].pc = "ringWait", ![r].elapsed = 0,
                                     ![r].numBytes = 0]
                /\ UNCHANGED eng
    /\ UNCHANGED <<adma, file, created, event>>

\* EngineRingCopyBytesToMemory finds data in the ring: it reads the
\* available count, fixes the number of bytes it takes and starts copying
\* them; the producer may append while the copy runs
EngineRingCopyBytesToMemory(r) ==
    /\ req[r].pc = "ringWait"
    /\ eng[EngineOf(r)].avail > 0
    /\ LET e == EngineOf(r)
           n == RingCopyCount(req[r].len, eng[e].avail)
       IN  req' = [req EXCEPT ![r].pc = "ringCopy", ![r].st = "STATUS_SUCCESS",
                              ![r].numBytes = n, ![r].availAt = eng[e].avail,
                              ![r].woke = "data"]
    /\ UNCHANGED <<adma, file, created, eng, event>>

\* the copy is done: the consumer moves its cursor past the bytes it took
EngineRingAdvance(r) ==
    /\ req[r].pc = "ringCopy"
    /\ req' = [req EXCEPT ![r].pc = "ringDone"]
    /\ eng' = [eng EXCEPT ![EngineOf(r)].avail =
                   IF req[r].numBytes <= @ THEN @ - req[r].numBytes ELSE 0]
    /\ UNCHANGED <<adma, file, created, event>>

\* one second passes for a reader waiting on an empty ring
RingTick(r) ==
    /\ req[r].pc = "ringWait"
    /\ eng[EngineOf(r)].avail = 0
    /\ req[r].elapsed < RingTimeoutSec
    /\ req' = [req EXCEPT ![r].elapsed = @ + 1]
    /\ UNCHANGED <<adma, file, created, eng, event>>

\* EngineRingCopyBytesToMemory gives up: the ring stayed empty for the
\* whole timeout
EngineRingTimeout(r) ==
    /\ req[r].pc = "ringWait"
    /\ eng[EngineOf(r)].avail = 0
    /\ req[r].elapsed = RingTimeoutSec
    /\ req' = [req EXCEPT ![r].pc = "ringDone", ![r].st = "STATUS_TIMEOUT",
                          ![r].numBytes = 0, ![r].woke = "timeout"]
    /\ UNCHANGED <<adma, file, created, eng, event>>

\* the hardware receive path appends n bytes to a ring that has been set
\* up; fed records on a read waiting for data that bytes arrived meanwhile
RingProduce(e, n) ==
    /\ eng[e].type = "ST"
    /\ eng[e].ring
    /\ eng[e].avail + n <= RingCapacity
    /\ eng' = [eng EXCEPT ![e].avail = @ + n]
    /\ req' = [r \in Requests |->
                  IF req[r].pc = "ringWait" /\ EngineOf(r) = e
                  THEN [req[r] EXCEPT !.fed = TRUE]
                  ELSE req[r]]
    /\ UNCHANGED <<adma, file, created, event>>

\* mutant of EvtIoReadEngineRingComplete: the requested length is reported
EvtIoReadEngineRingCompleteLength(r) ==
    /\ req[r].pc = "ringDone"
    /\ req' = [Complete(req, r, req[r].st, req[r].len) EXCEPT ![r].pc = "ret"]
    /\ eng' = QueueReleaseOwned(eng, r)
    /\ UNCHANGED <<adma, file, created, event>>

\* mutant of EvtIoReadEngineRingComplete: the status of the copy is dropped
EvtIoReadEngineRingCompleteSuccess(r) ==
    /\ req[r].pc = "ringDone"
    /\ req' = [Complete(req, r, "STATUS_SUCCESS", req[r].numBytes) EXCEPT ![r].pc = "ret"]
    /\ eng' = QueueReleaseOwned(eng, r)
    /\ UNCHANGED <<adma, file, created, event>>

\* EvtIoReadEngineRing: WdfRequestCompleteWithInformation(Request, status,
\* numBytes)
EvtIoReadEngineRingComplete(r) ==
    /\ req[r].pc = "ringDone"
    /\ req' = [Complete(req, r, req[r].st, req[r].numBytes) EXCEPT ![r].pc = "ret"]
    /\ eng' = QueueReleaseOwned(eng, r)
    /\ UNCHANGED <<adma, file, created, event>>

\* ------------------------------------------------------ request lifetime

\* a request is finished once it is completed and every callback that was
\* handed it has returned
Finished(r) ==
    /\ req[r].pc = "ret"
    /\ req[r].cpc \in {"none", "done"}
    /\ req[r].completions >= 1

\* The framework frees a finished request object; nothing reads it again,
\* and the record kept of it is dropped.
RequestFree(r) ==
    /\ Finished(r)
    /\ req' = [req EXCEPT ![r] = [NoReq EXCEPT !.pc = "retired"]]
    /\ UNCHANGED <<adma, file, created, eng, event>>

NoneFinished == \A r \in Requests : ~Finished(r)

\* ---------------------------------------------------------- specifications

DmaNames == {"h2c_0", "c2h_0"}

\* length of the DMA requests issued
DmaLength == 4

\* The engines as the device probe leaves them: enabled or not, polled or
\* interrupt driven, interrupt on or off.  Engines share no state (every
\* action reads and writes the record of one engine only), so the
\* configurations explored enable at most one of the two; the flags of a
\* disabled engine are never read.  The engines are memory mapped, and the
\* address mode is left out of the choice: only the device-control handlers
\* read or write it, and they are driven on engines of their own.
EngineConfigs ==
    {f \in [Dirs -> {NewEngine(en, po, irq, "MM", FALSE, FALSE, 0) :
                        en \in BOOLEAN, po \in BOOLEAN, irq \in BOOLEAN}] :
        /\ Cardinality({e \in Dirs : f[e].enabled}) <= 1
        /\ \A e \in Dirs : ~f[e].enabled => ~f[e].poll /\ ~f[e].irq}

InitDma ==
    /\ adma = NewAdma(1, -1)
    /\ file = [d \in DevTypes |-> NoFile]
    /\ created = [n \in FileNames |-> "none"]
    /\ eng \in EngineConfigs
    /\ req = [r \in Requests |-> NoReq]
    /\ event = [signaled |-> FALSE, pulsed |-> FALSE]

\* a finished request is freed before anything else happens
NextDma ==
    \/ \E r \in Requests : RequestFree(r)
    \/ NoneFinished /\ \E n \in DmaNames : EvtDeviceFileCreate(n)
    \/ NoneFinished /\ \E r \in Requests, d \in {"AH2C", "AC2H"}, ok \in BOOLEAN :
          EvtIoRead(r, d, 0, DmaLength, ok)
    \/ NoneFinished /\ \E r \in Requests, d \in {"AH2C", "AC2H"}, ok \in BOOLEAN :
          EvtIoWrite(r, d, 0, DmaLength, ok)
    \/ NoneFinished /\ \E e \in Dirs : QueueDispatch(e)
    \/ NoneFinished /\ \E r \in Requests, ok \in BOOLEAN :
          EvtIoDmaInitialize(r, ok)
    \/ NoneFinished /\ \E r \in Requests : EvtIoDmaMarkCancelable(r)
    \/ NoneFinished /\ \E r \in Requests, ok \in BOOLEAN :
          EvtIoDmaExecute(r, ok)
    \/ NoneFinished /\ \E r \in Requests : EvtIoDmaPoll(r)
    \/ NoneFinished /\ \E r \in Requests : EvtIoDmaErrRelease(r)
    \/ NoneFinished /\ \E r \in Requests : EvtIoDmaErrComplete(r)
    \/ NoneFinished /\ \E e \in Dirs, ok \in BOOLEAN : HwFinish(e, ok)
    \/ NoneFinished /\ \E e \in Dirs : DmaTransferComplete(e)
    \/ NoneFinished /\ \E r \in Requests : UserCancel(r)
    \/ NoneFinished /\ \E r \in Requests : EvtCancelDmaStop(r)
    \/ NoneFinished /\ \E r \in Requests : EvtCancelDmaRelease(r)
    \/ NoneFinished /\ \E r \in Requests : EvtCancelDmaComplete(r)

SpecDma == InitDma /\ [][NextDma]_vars


\* ------------------------------------------------------------------ claims

\* the requests whose own submit handler executed the transaction and
\* returned to the framework with the transfer running
Submitted(r) == req[r].executed

\* C1: when a cancel and the hardware completion race on a request whose
\* transaction was executed, the request is completed exactly once and the
\* transaction is released exactly once (never twice while the race runs,
\* exactly once when every callback has returned)
C1_ExactlyOneTerminalPath ==
    \A r \in Requests :
        Submitted(r) =>
            /\ req[r].completions <= 1
            /\ req[r].rel <= 1
            /\ Finished(r) => req[r].completions = 1 /\ req[r].rel = 1

\* C1 witness: the cancel won, the completion path found the request taken
\* and backed off, and the request ended Cancelled, once
C1_Witness ==
    \E r \in Requests :
        /\ Submitted(r) /\ Finished(r)
        /\ req[r].loser = "completion"
        /\ req[r].cstatus = "STATUS_CANCELLED"
        /\ req[r].completions = 1 /\ req[r].rel = 1


\* a request an engine queue has presented to its handler and that has not
\* reached a terminal outcome yet
Live(r) ==
    /\ req[r].node \in DmaTypes
    /\ req[r].pc \notin {"idle", "queued", "retired"}
    /\ req[r].completions = 0

LiveOn(e) == {r \in Requests : Live(r) /\ EngineOf(r) = e}

\* C3: per engine at most one request is being processed at any instant,
\* and a transaction that is initialized or executing belongs to that
\* request: a second request touches the transaction only after the first
\* has reached a terminal outcome
C3_OneTransactionPerEngine ==
    \A e \in Dirs :
        /\ Cardinality(LiveOn(e)) <= 1
        /\ eng[e].tx # "idle" => eng[e].txReq \in LiveOn(e)

\* C3 witness: a transaction executes while a second request for the same
\* engine waits in the queue
C3_Witness ==
    \E e \in Dirs : eng[e].tx = "executing" /\ Len(eng[e].queue) >= 1

\* C4: when a request is cancelled after its submit succeeded, the cancel
\* callback completes it with Cancelled once, with the hardware stopped, the
\* transaction released and the queue free to present the next request; and
\* whenever a request is about to be initialized the transaction is free
C4_CancelReturnsEngineToIdle ==
    /\ [](\A r \in Requests :
             req[r].pc = "init" => eng[EngineOf(r)].tx = "idle")
    /\ [][\A r \in Requests :
             (/\ req[r].cpc = "complete"
              /\ req'[r].cpc = "done"
              /\ req[r].cancelAt = "submitted")
             => /\ req'[r].cstatus = "STATUS_CANCELLED"
                /\ req'[r].completions = 1
                /\ req'[r].rel = 1
                /\ eng'[EngineOf(r)].tx = "idle"
                /\ eng'[EngineOf(r)].hw = "idle"
                /\ eng'[EngineOf(r)].owned = 0]_vars

\* C4 witness: a request cancelled while its transfer was running has been
\* completed with Cancelled and the engine is idle
C4_Witness ==
    \E r \in Requests :
        /\ req[r].cpc = "done"
        /\ req[r].cancelAt = "submitted"
        /\ req[r].cstatus = "STATUS_CANCELLED"
        /\ eng[EngineOf(r)].tx = "idle"
        /\ eng[EngineOf(r)].hw = "idle"

\* C5: a submit that fails after the transaction was initialized releases
\* the transaction exactly once, completes the request exactly once with the
\* failure status, and leaves no transaction bound to the request
C5_FailedSubmitReleasesOnce ==
    \A r \in Requests :
        (req[r].inited /\ req[r].st = "ErrExit" /\ Finished(r))
        => /\ req[r].rel = 1
           /\ req[r].completions = 1
           /\ ~NT_SUCCESS(req[r].cstatus)
           /\ eng[EngineOf(r)].txReq # r

\* C6: a transfer on an engine whose enabled flag is false is rejected with
\* DeviceNotReady and with nothing else: the client's way to the transfer
\* (the open of the node, then the request) is not refused with another
\* status, a request on the node is completed once with DeviceNotReady with
\* no transaction initialized or executed for it, and the transaction and
\* the hardware of the engine stay idle
C6_DisabledRejectedDeviceNotReady ==
    \A n \in DmaNames :
        LET d == GetDevNodeType(n)
            e == DirOf(d)
        IN  ~eng[e].enabled =>
               /\ created[n] \in {"none", "STATUS_SUCCESS", "STATUS_DEVICE_NOT_READY"}
               /\ \A r \in Requests :
                     (req[r].node = d /\ req[r].pc # "idle") =>
                         /\ req[r].pc = "ret"
                         /\ req[r].completions = 1
                         /\ req[r].cstatus = "STATUS_DEVICE_NOT_READY"
                         /\ ~req[r].inited /\ ~req[r].executed
               /\ eng[e].tx = "idle"
               /\ eng[e].hw = "idle"

\* C8: on an engine with poll set, a submit whose setup succeeded has
\* brought its request to a terminal outcome when the handler returns
C8_PollReachesTerminalBeforeReturn ==
    \A r \in Requests :
        (req[r].pc = "ret" /\ req[r].executed /\ eng[EngineOf(r)].poll)
        => req[r].completions >= 1


\* ------------------------------------------------- specification: the router

\* the names GetDevNodeType resolves, and the node kinds they open: the
\* only kinds a FILE_CONTEXT of the driver ever carries
RouterNames == {FileNameLUT[i].wstr : i \in 1..Len(FileNameLUT)}

NodeKinds == {GetDevNodeType(n) : n \in RouterNames}

\* the device offsets and lengths of the requests sent to a node of a kind:
\* every pair within the bounds for register nodes, one transfer of
\* DmaLength bytes for DMA nodes
RouterInputs(devType) ==
    IF devType \in DmaTypes THEN {<<0, DmaLength>>}
    ELSE (0..MaxOffset) \X (0..MaxLength)

\* the engines of the device the router is driven on: both enabled,
\* interrupt driven
RouterEngines ==
    [e \in Dirs |-> NewEngine(TRUE, FALSE, FALSE, "MM", FALSE, FALSE, 0)]

\* a device with a user BAR and both engines enabled, no file open yet
InitRouter ==
    /\ adma = NewAdma(1, -1)
    /\ eng = RouterEngines
    /\ file = [d \in DevTypes |-> NoFile]
    /\ created = [n \in FileNames |-> "none"]
    /\ req = [r \in Requests |-> NoReq]
    /\ event = [signaled |-> FALSE, pulsed |-> FALSE]

\* clients open the names of FileNameLUT and read and write on the nodes
\* they opened; a finished request is freed before anything else happens
NextRouter ==
    \/ \E r \in Requests : RequestFree(r)
    \/ NoneFinished /\ \E n \in RouterNames : EvtDeviceFileCreate(n)
    \/ NoneFinished /\ \E r \in Requests, d \in NodeKinds, ok \in BOOLEAN :
          \E io \in RouterInputs(d) : EvtIoRead(r, d, io[1], io[2], ok)
    \/ NoneFinished /\ \E r \in Requests, d \in NodeKinds, ok \in BOOLEAN :
          \E io \in RouterInputs(d) : EvtIoWrite(r, d, io[1], io[2], ok)

SpecRouter == InitRouter /\ [][NextRouter]_vars

\* ------------------------------------- specification: the event read handler

\* EvtReadUserEvent, HandleUserEvent and the EVENTS case of EvtIoRead, run
\* on the FILE_CONTEXT the DEVNODE_TYPE_EVENTS case of EvtDeviceFileCreate
\* writes.  No name of FileNameLUT resolves to that kind, so no client of the
\* driver as built reaches these states: the specification shows what the
\* handlers do as written, given such a node.
InitEvent ==
    /\ adma = NewAdma(1, -1)
    /\ eng = RouterEngines
    /\ file = [d \in DevTypes |->
                  IF d = "EVENTS" THEN NodeSetup(d, adma, eng).ctx ELSE NoFile]
    /\ created = [n \in FileNames |-> "none"]
    /\ req = [r \in Requests |-> NoReq]
    /\ event = [signaled |-> FALSE, pulsed |-> FALSE]

NextEvent ==
    \/ \E r \in Requests : RequestFree(r)
    \/ NoneFinished /\ \E r \in Requests, len \in 0..MaxLength, ok \in BOOLEAN :
          EvtIoRead(r, "EVENTS", 0, len, ok)
    \/ NoneFinished /\ \E r \in Requests : EvtReadUserEventWait(r)
    \/ NoneFinished /\ \E r \in Requests : Tick(r)
    \/ NoneFinished /\ \E r \in Requests : EvtReadUserEventTimeout(r)
    \/ NoneFinished /\ HandleUserEvent
    \/ NoneFinished /\ \E r \in Requests : UserCancelEventRead(r)
    \/ NoneFinished /\ \E r \in Requests, memOk \in BOOLEAN :
          EvtReadUserEventOutput(r, memOk)

SpecEvent == InitEvent /\ [][NextEvent]_vars

\* --------------------------------------------------------- claims: the router

\* the dispatch of a request has returned
Dispatched(r) == req[r].pc \in {"ret", "queued"}

\* C2: once dispatch has returned, the request has either been completed by
\* the router once or been forwarded to its engine queue once, never both
\* and never neither; a request that was not forwarded is completed, with
\* the failure status when the forward or the register access failed
C2_CompletedXorForwardedOnce ==
    \A r \in Requests :
        Dispatched(r) =>
            /\ req[r].completions + req[r].forwards = 1
            /\ req[r].pc = "queued" <=> req[r].forwards = 1
            /\ req[r].forwards = 1 =>
                  \E i \in 1..Len(eng[EngineOf(r)].queue) : eng[EngineOf(r)].queue[i] = r
            /\ (req[r].completions = 1 /\ req[r].access = <<>> /\ req[r].out = <<>>)
                  => ~NT_SUCCESS(req[r].cstatus)

\* C2 witness: one request sits in an engine queue uncompleted while another
\* was completed by the router with a failure status
C2_Witness ==
    \E r1, r2 \in Requests :
        /\ req[r1].pc = "queued" /\ req[r1].forwards = 1 /\ req[r1].completions = 0
        /\ req[r2].pc = "ret" /\ req[r2].forwards = 0 /\ req[r2].completions = 1
        /\ ~NT_SUCCESS(req[r2].cstatus)

\* C7: a register request with offset + length >= barLength is completed
\* with a failure status and touches no register
C7_OutOfRangeRejected ==
    \A r \in Requests :
        (/\ req[r].node \in BarTypes
         /\ req[r].pc = "ret"
         /\ req[r].off + req[r].len >= BarLength)
        => /\ ~NT_SUCCESS(req[r].cstatus)
           /\ req[r].access = <<>>

\* events_<n> names an EventChannel node: the open of events_0 is not
\* refused
EventNodeOpens == created["events_0"] \in {"none", "STATUS_SUCCESS"}

EventReadEnded(r) ==
    /\ req[r].node = "EVENTS"
    /\ req[r].op = "read"
    /\ req[r].pc = "ret"
    /\ req[r].woke # "none"

\* what a successful event read delivers: one boolean, true iff the event
\* was pulsed during the wait, false iff the timeout passed without a pulse
EventReadDelivered(r) ==
    /\ Len(req[r].out) = 1
    /\ req[r].info = SizeofBoolean
    /\ req[r].out[1] = TRUE <=> req[r].pulsed
    /\ req[r].out[1] = FALSE <=> (req[r].woke = "timeout" /\ req[r].elapsed = EventTimeoutSec)

C12_EarlierPulseNeverSatisfies ==
    \A r \in Requests :
        /\ req[r].pc = "evCleared" => ~event.signaled
        /\ req[r].woke = "signaled" => req[r].pulsed
        /\ (EventReadEnded(r) /\ NT_SUCCESS(req[r].cstatus) /\ ~req[r].pulsed)
              => /\ req[r].out = <<FALSE>>
                 /\ req[r].woke = "timeout"
                 /\ req[r].elapsed = EventTimeoutSec

\* C12 witness: the event was pulsed before the read started, no pulse came
\* during the wait, and the read returned false
C12_Witness ==
    \E r \in Requests :
        /\ EventReadEnded(r)
        /\ req[r].stale
        /\ ~req[r].pulsed
        /\ req[r].out = <<FALSE>>
        /\ req[r].cstatus = "STATUS_SUCCESS"


\* the operations a node kind does not support: a read on a node that only
\* takes writes, a write on a node that only takes reads
Unsupported(r) ==
    \/ req[r].op = "read" /\ req[r].node \in {"H2C", "AH2C"}
    \/ req[r].op = "write" /\ req[r].node \in {"C2H", "AC2H", "EVENTS"}

\* C15: an operation a node kind does not support is completed once with
\* InvalidDeviceRequest when dispatch returns; it is not forwarded to an
\* engine queue, makes no register access and starts no wait or transaction
C15_UnsupportedRejected ==
    \A r \in Requests :
        Unsupported(r) =>
            /\ req[r].pc = "ret"
            /\ req[r].completions = 1
            /\ req[r].cstatus = "STATUS_INVALID_DEVICE_REQUEST"
            /\ req[r].info = 0
            /\ req[r].forwards = 0
            /\ req[r].access = <<>>
            /\ ~req[r].cleared /\ ~req[r].inited
            /\ \A e \in Dirs : \A i \in 1..Len(eng[e].queue) : eng[e].queue[i] # r

\* C15 witness: a read on the node h2c_0 opens was rejected while a write on
\* the same node sits forwarded in the engine queue
C15_Witness ==
    \E r1, r2 \in Requests :
        /\ req[r1].node = "AH2C" /\ req[r1].op = "read" /\ req[r1].pc = "ret"
        /\ req[r1].cstatus = "STATUS_INVALID_DEVICE_REQUEST"
        /\ req[r2].node = "AH2C" /\ req[r2].op = "write" /\ req[r2].pc = "queued"

\* a register request with a length above 0 that lies inside the BAR by
\* the test of ValidateBarParams
InRange(r) ==
    /\ req[r].node \in BarTypes
    /\ req[r].pc # "idle"
    /\ ValidateBarParams(adma, BarIndex(adma, req[r].node), req[r].off, req[r].len)
          = "STATUS_SUCCESS"

\* what a successful register request leaves: one completion with success
\* and the requested length, after one register-buffer access at the offset
BarDelivered(r) ==
    /\ req[r].cstatus = "STATUS_SUCCESS"
    /\ req[r].info = req[r].len
    /\ Len(req[r].access) = 1
    /\ req[r].access[1].kind = req[r].op
    /\ req[r].access[1].addr = req[r].off
    /\ req[r].access[1].width * req[r].access[1].count = req[r].len

\* C16 (as claimed): every in-range register request is completed inside
\* dispatch with success and a byte count equal to its length
C16_InRangeAlwaysSucceeds ==
    \A r \in Requests :
        InRange(r) => req[r].pc = "ret" /\ req[r].completions = 1 /\ BarDelivered(r)

\* C16 (amended): every in-range register request is completed once inside
\* dispatch: with success and a byte count equal to its length when the
\* request's memory can be retrieved, and otherwise with the retrieval
\* failure, a byte count of 0 and no register access
C16_InRangeSucceedsOrMemoryFails ==
    \A r \in Requests :
        InRange(r) =>
            /\ req[r].pc = "ret"
            /\ req[r].completions = 1
            /\ req[r].forwards = 0
            /\ IF NT_SUCCESS(req[r].cstatus)
               THEN BarDelivered(r)
               ELSE /\ req[r].cstatus = "STATUS_INSUFFICIENT_RESOURCES"
                    /\ req[r].info = 0
                    /\ req[r].access = <<>>

\* C16 witness: an in-range write of 3 bytes at offset 1 succeeded
C16_Witness ==
    \E r \in Requests :
        /\ InRange(r) /\ req[r].pc = "ret"
        /\ req[r].op = "write" /\ req[r].off = 1 /\ req[r].len = 3
        /\ BarDelivered(r)

\* C17: an event read whose length is not the size of one boolean is
\* completed once with InvalidParameter when dispatch returns, and neither
\* clears the event nor waits on it
C17_WrongLengthEventRead ==
    \A r \in Requests :
        (req[r].node = "EVENTS" /\ req[r].op = "read" /\ req[r].len # SizeofBoolean)
        => /\ req[r].pc = "ret"
           /\ req[r].completions = 1
           /\ req[r].cstatus = "STATUS_INVALID_PARAMETER"
           /\ req[r].info = 0
           /\ ~req[r].cleared
           /\ req[r].woke = "none" /\ req[r].elapsed = 0
           /\ req[r].out = <<>>

\* C17 witness: an event read of 0 bytes and one of 2 bytes are possible;
\* here the one of 2 bytes was refused
C17_Witness ==
    \E r \in Requests :
        /\ req[r].node = "EVENTS" /\ req[r].op = "read" /\ req[r].len = 2
        /\ req[r].pc = "ret"
        /\ req[r].cstatus = "STATUS_INVALID_PARAMETER"


\* --------------------------------------------- specification: streaming reads

\* A device whose C2H engine is an enabled streaming engine.  c2h_0 opens
\* the DEVNODE_TYPE_AC2H kind, whose case of EvtDeviceFileCreate does not
\* call EngineRingSetup; whether the code that creates the engine (outside
\* file_io.c) has set the ring up is not known here, so both are explored.
StreamingEngines ==
    {[e \in Dirs |-> IF e = "C2H"
                     THEN NewEngine(TRUE, FALSE, TRUE, "ST", ring, FALSE, 0)
                     ELSE NewEngine(FALSE, FALSE, FALSE, "MM", FALSE, FALSE, 0)] :
        ring \in BOOLEAN}

InitRing ==
    /\ adma = NewAdma(1, -1)
    /\ eng \in StreamingEngines
    /\ file = [d \in DevTypes |-> NoFile]
    /\ created = [n \in FileNames |-> "none"]
    /\ req = [r \in Requests |-> NoReq]
    /\ event = [signaled |-> FALSE, pulsed |-> FALSE]

NextRing ==
    \/ \E r \in Requests : RequestFree(r)
    \/ NoneFinished /\ EvtDeviceFileCreate("c2h_0")
    \/ NoneFinished /\ \E r \in Requests, len \in 1..MaxRingLength, ok \in BOOLEAN :
          EvtIoRead(r, "AC2H", 0, len, ok)
    \/ NoneFinished /\ QueueDispatch("C2H")
    \/ NoneFinished /\ \E r \in Requests, memOk \in BOOLEAN : EvtIoReadEngineRing(r, memOk)
    \/ NoneFinished /\ \E r \in Requests : EngineRingCopyBytesToMemory(r)
    \/ NoneFinished /\ \E r \in Requests : EngineRingAdvance(r)
    \/ NoneFinished /\ \E r \in Requests : RingTick(r)
    \/ NoneFinished /\ \E r \in Requests : EngineRingTimeout(r)
    \/ NoneFinished /\ \E n \in 1..MaxProduce : RingProduce("C2H", n)
    \/ NoneFinished /\ \E r \in Requests : EvtIoReadEngineRingComplete(r)
    \/ NoneFinished /\ EvtFileCleanup("AC2H")
    \/ NoneFinished /\ EvtFileClose("AC2H")

SpecRing == InitRing /\ [][NextRing]_vars


\* a streaming read whose handler found data in the ring
RingCopied(r) == req[r].ringRead /\ req[r].woke = "data"

\* C13: under any interleaving of producer appends with the one consumer
\* the engine queue admits, a streaming read takes exactly
\* min(maxLength, available) bytes, available being the content of the ring
\* when the consumer read the count: the bytes it is copying are in the
\* ring for as long as the copy runs, whatever the producer appends; the
\* count is never above the length asked for; it is the count the request
\* is completed with; and a read that found data at its start does not wait
C13_CopiesMinOfLengthAndAvailable ==
    /\ \A e \in Dirs : eng[e].avail >= 0 /\ eng[e].avail <= RingCapacity
    /\ \A r \in Requests :
          /\ req[r].pc = "ringCopy" =>
                /\ req[r].numBytes >= 1
                /\ req[r].numBytes <= eng[EngineOf(r)].avail
          /\ RingCopied(r) =>
                /\ req[r].numBytes <= req[r].len
                /\ req[r].numBytes <= req[r].availAt
                /\ req[r].numBytes = req[r].len \/ req[r].numBytes = req[r].availAt
                /\ req[r].avail0 > 0 => req[r].elapsed = 0
                /\ req[r].pc = "ret" =>
                      /\ req[r].completions = 1
                      /\ req[r].cstatus = "STATUS_SUCCESS"
                      /\ req[r].info = req[r].numBytes

\* C13 witness: the ring held fewer bytes than requested when the read on
\* the node c2h_0 opens started; the read returned them without waiting,
\* and bytes the producer appended while the copy ran are left in the ring
C13_Witness ==
    \E r \in Requests :
        /\ RingCopied(r) /\ req[r].pc = "ret" /\ req[r].node = "AC2H"
        /\ req[r].avail0 > 0 /\ req[r].availAt < req[r].len
        /\ req[r].info = req[r].availAt
        /\ req[r].elapsed = 0
        /\ eng[EngineOf(r)].avail > 0

\* a streaming read that began on an empty ring into which no byte was
\* produced while it waited
EmptyRingRead(r) == req[r].ringRead /\ req[r].avail0 = 0 /\ ~req[r].fed

\* C14 (as claimed): a streaming read on an empty ring into which no byte is
\* produced before the timeout is completed once with the timeout status
\* and a byte count of 0, and no reader waits longer than the timeout
C14_EmptyRingAlwaysTimesOut ==
    \A r \in Requests :
        /\ req[r].pc = "ringWait" => req[r].elapsed <= RingTimeoutSec
        /\ (EmptyRingRead(r) /\ req[r].pc = "ret") =>
              /\ req[r].completions = 1
              /\ req[r].cstatus = "STATUS_TIMEOUT"
              /\ req[r].info = 0

\* C14 (amended): such a read finds the ring empty for as long as it waits
\* and is completed once with a byte count of 0: with the timeout status
\* after exactly the timeout when its output memory could be retrieved, and
\* otherwise with the retrieval failure, without waiting; no reader waits
\* longer than the timeout
C14_EmptyRingTimesOutOrMemoryFails ==
    \A r \in Requests :
        /\ req[r].pc = "ringWait" => req[r].elapsed <= RingTimeoutSec
        /\ (EmptyRingRead(r) /\ req[r].pc = "ringWait") =>
              eng[EngineOf(r)].avail = 0
        /\ (EmptyRingRead(r) /\ req[r].pc = "ret") =>
              /\ req[r].completions = 1
              /\ req[r].info = 0
              /\ req[r].numBytes = 0
              /\ IF req[r].cstatus = "STATUS_TIMEOUT"
                 THEN /\ req[r].woke = "timeout"
                      /\ req[r].elapsed = RingTimeoutSec
                 ELSE /\ req[r].cstatus = "STATUS_INSUFFICIENT_RESOURCES"
                      /\ req[r].woke = "none"
                      /\ req[r].elapsed = 0

\* C14 witness: a streaming read on the node c2h_0 opens began on an empty
\* ring, nothing was produced, and it was completed with the timeout status
\* after the timeout
C14_Witness ==
    \E r \in Requests :
        /\ EmptyRingRead(r) /\ req[r].pc = "ret" /\ req[r].node = "AC2H"
        /\ req[r].elapsed = RingTimeoutSec
        /\ req[r].cstatus = "STATUS_TIMEOUT" /\ req[r].info = 0


\* C19: a request cancelled after submit marked it cancelable and before its
\* transaction executes is completed at most once and has its transaction
\* released at most once, across EvtCancelDma and the submit failure path
C19_EarlyCancelCompletesReleasesOnce ==
    \A r \in Requests :
        (req[r].cancelAt = "early" /\ req[r].cpc # "none")
        => /\ req[r].completions <= 1
           /\ req[r].rel <= 1

\* C20: a request whose transaction was never initialized never has the
\* transaction released on its behalf
C20_ReleaseOnlyAfterInitialize ==
    \A r \in Requests :
        (req[r].node \in DmaTypes /\ ~req[r].inited) => req[r].rel = 0

C23_InterruptFollowsPollAfterOpen ==
    \A n \in DmaNames :
        created[n] = "STATUS_SUCCESS"
        => (eng[DirOf(GetDevNodeType(n))].irq <=> ~eng[DirOf(GetDevNodeType(n))].poll)

\* the widest of the access sizes 4, 2, 1 that divides the length
WidestDividing(length) ==
    CHOOSE w \in {1, 2, 4} :
        /\ length % w = 0
        /\ \A v \in {1, 2, 4} : length % v = 0 => v <= w

\* C26: a register read or write of length > 0 that reaches the BAR makes
\* one buffer access of length/4 4-byte units if 4 divides the length, else
\* of length/2 2-byte units if the length is even, else of length bytes, at
\* the BAR base plus the offset, so exactly length bytes are transferred;
\* a request that does not reach the BAR makes no access
C26_WidestAccessCoversLength ==
    \A r \in Requests :
        (req[r].node \in BarTypes /\ req[r].pc # "idle") =>
            IF req[r].cstatus = "STATUS_SUCCESS"
            THEN /\ req[r].len > 0
                 /\ Len(req[r].access) = 1
                 /\ req[r].access[1].kind = req[r].op
                 /\ req[r].access[1].bar = file[req[r].node].u
                 /\ req[r].access[1].addr = req[r].off
                 /\ req[r].access[1].width = WidestDividing(req[r].len)
                 /\ req[r].access[1].count = req[r].len \div WidestDividing(req[r].len)
                 /\ req[r].access[1].width * req[r].access[1].count = req[r].len
            ELSE req[r].access = <<>>

\* C26 witness: a write of an even length that 4 does not divide has
\* reached the BAR at a nonzero offset as one 2-byte access
C26_Witness ==
    \E r \in Requests :
        /\ req[r].node \in BarTypes /\ req[r].op = "write"
        /\ req[r].len = 2 /\ req[r].off > 0
        /\ Len(req[r].access) = 1
        /\ req[r].access[1].width = 2 /\ req[r].access[1].count = 1
        /\ req[r].access[1].addr = req[r].off

\* ------------------------------------------------ specification: file create

\* the device as the probe leaves it: with or without a user BAR, the
\* engines as in EngineConfigs
InitCreate ==
    /\ adma \in {NewAdma(u, -1) : u \in {-1, 1}}
    /\ file = [d \in DevTypes |-> NoFile]
    /\ created = [n \in FileNames |-> "none"]
    /\ eng \in EngineConfigs
    /\ req = [r \in Requests |-> NoReq]
    /\ event = [signaled |-> FALSE, pulsed |-> FALSE]

\* clients open any name and read or write on a node of any kind
NextCreate ==
    \/ \E r \in Requests : RequestFree(r)
    \/ NoneFinished /\ \E n \in FileNames : EvtDeviceFileCreate(n)
    \/ NoneFinished /\ \E r \in Requests, d \in DevTypes, ok \in BOOLEAN :
          EvtIoRead(r, d, 0, MaxLength, ok)
    \/ NoneFinished /\ \E r \in Requests, d \in DevTypes, ok \in BOOLEAN :
          EvtIoWrite(r, d, 0, MaxLength, ok)
    \/ NoneFinished /\ \E d \in DevTypes : EvtFileCleanup(d)
    \/ NoneFinished /\ \E d \in DevTypes : EvtFileClose(d)

SpecCreate == InitCreate /\ [][NextCreate]_vars

\* the resource a node kind refers to
ResourceOf(d) ==
    CASE d = "CONTROL" -> "bar_config"
      [] d = "USER" -> "bar_user"
      [] d = "BYPASS" -> "bar_bypass"
      [] d \in DmaTypes -> DirOf(d)
      [] d = "EVENTS" -> "event_0"
      [] OTHER -> "none"

\* a file context holds the resource of its kind
HasResourceOfKind(d, f) ==
    /\ f.u = ResourceOf(d)
    /\ d \in DmaTypes => f.queue = DirOf(d)

\* C24: a node whose open succeeded has a kind other than UNKNOWN and, from
\* the create on and as long as its file exists, the resource of its kind (a
\* BAR, an engine with its queue, an event), which never changes, cleanup
\* included, until close destroys the file; a create that fails binds
\* nothing; an open whose name resolves to UNKNOWN fails with
\* InvalidParameter, and no request ever runs on an UNKNOWN node
C24_OpenNodeHasKindAndResource ==
    /\ [](\A n \in FileNames :
             LET d == GetDevNodeType(n)
             IN  /\ created[n] = "STATUS_SUCCESS" =>
                       /\ d # "UNKNOWN"
                       /\ file[d] # NoFile => HasResourceOfKind(d, file[d])
                 /\ created[n] \notin {"none", "STATUS_SUCCESS"} => file[d] = NoFile
                 /\ (d = "UNKNOWN" /\ created[n] # "none") =>
                       created[n] = "STATUS_INVALID_PARAMETER")
    /\ [](/\ file["UNKNOWN"] = NoFile
          /\ \A r \in Requests : req[r].node # "UNKNOWN")
    /\ [][\A n \in FileNames :
             (created[n] = "none" /\ created'[n] = "STATUS_SUCCESS") =>
                 /\ file'[GetDevNodeType(n)].open
                 /\ HasResourceOfKind(GetDevNodeType(n), file'[GetDevNodeType(n)])]_vars
    /\ [][\A d \in DevTypes :
             (file[d] # NoFile /\ file'[d] # NoFile) =>
                 /\ file'[d].u = file[d].u
                 /\ file'[d].queue = file[d].queue]_vars

\* C24 witness: a BAR node and a DMA node were opened, an unrecognized name
\* was refused, a request on the BAR node has been completed, and another
\* BAR node has been through cleanup with its context intact
C24_Witness ==
    /\ created["user"] = "STATUS_SUCCESS"
    /\ file["USER"].open /\ file["USER"].u = "bar_user"
    /\ created["control"] = "STATUS_SUCCESS"
    /\ ~file["CONTROL"].open /\ file["CONTROL"].u = "bar_config"
    /\ created["bogus"] = "STATUS_INVALID_PARAMETER"
    /\ \E n \in DmaNames : created[n] = "STATUS_SUCCESS"
                            /\ file[GetDevNodeType(n)].queue = DirOf(GetDevNodeType(n))
    /\ \E r \in Requests : req[r].node = "USER" /\ req[r].completions = 1

\* ------------------------------------------ specification: DMA with progress

\* the steps of the driver, the framework and the hardware that are taken
\* whenever they stay possible: the queue presents requests, a handler or
\* callback that was entered runs on, the hardware finishes or fails a
\* started transfer, and its completion is delivered while the engine
\* interrupt is enabled.  Opening files, issuing requests and cancelling
\* them are the client's choice.
DmaProgress ==
    \/ \E r \in Requests : RequestFree(r)
    \/ NoneFinished /\ \E e \in Dirs : QueueDispatch(e)
    \/ NoneFinished /\ \E r \in Requests, ok \in BOOLEAN : EvtIoDmaInitialize(r, ok)
    \/ NoneFinished /\ \E r \in Requests : EvtIoDmaMarkCancelable(r)
    \/ NoneFinished /\ \E r \in Requests, ok \in BOOLEAN : EvtIoDmaExecute(r, ok)
    \/ NoneFinished /\ \E r \in Requests : EvtIoDmaPoll(r)
    \/ NoneFinished /\ \E r \in Requests : EvtIoDmaErrRelease(r)
    \/ NoneFinished /\ \E r \in Requests : EvtIoDmaErrComplete(r)
    \/ NoneFinished /\ \E e \in Dirs, ok \in BOOLEAN : HwFinish(e, ok)
    \/ NoneFinished /\ \E e \in Dirs : DmaTransferComplete(e)
    \/ NoneFinished /\ \E r \in Requests : EvtCancelDmaStop(r)
    \/ NoneFinished /\ \E r \in Requests : EvtCancelDmaRelease(r)
    \/ NoneFinished /\ \E r \in Requests : EvtCancelDmaComplete(r)

SpecDmaLive == InitDma /\ [][NextDma]_vars /\ WF_vars(DmaProgress)

\* a request that has reached a terminal outcome: it was completed, or it
\* was completed and freed
Terminal(r) == req[r].completions >= 1 \/ req[r].pc = "retired"

\* C21: every DMA request delivered to an engine queue eventually reaches a
\* terminal outcome, for both directions and both settings of engine->poll
C21_DeliveredEventuallyTerminates ==
    \A r \in Requests : (req[r].pc = "queued") ~> Terminal(r)

\* -------------------------------------------- specification: device control

CtlNames == {"h2c_0", "c2h_0", "user", "control"}

CtlNodes == {GetDevNodeType(n) : n \in CtlNames}

\* a device with both engines enabled on which every name of FileNameLUT
\* has been opened by EvtDeviceFileCreate.  Neither the create nor anything
\* else in file_io.c writes the ADMA_CTRL_NON_INCR_ADDR bit or addressMode
\* before the first IOCTL_ADMA_ADDRMODE_SET, so the engines start with any
\* bit and any addressMode.
CtlEngines ==
    [Dirs -> {NewEngine(TRUE, FALSE, TRUE, "MM", FALSE, bit, mode) :
                 bit \in BOOLEAN, mode \in 0..MaxAddrMode}]

InitCtl ==
    /\ adma = NewAdma(1, -1)
    /\ eng \in CtlEngines
    /\ file = [d \in DevTypes |->
                  IF d \in CtlNodes
                  THEN NodeSetup(d, adma, eng).ctx
                  ELSE NoFile]
    /\ created = [n \in FileNames |->
                     IF n \in CtlNames
                     THEN NodeSetup(GetDevNodeType(n), adma, eng).status
                     ELSE "none"]
    /\ req = [r \in Requests |-> NoReq]
    /\ event = [signaled |-> FALSE, pulsed |-> FALSE]

NextCtl ==
    \/ \E r \in Requests : RequestFree(r)
    \/ NoneFinished /\ \E r \in Requests, d \in CtlNodes, code \in IoControlCodes,
                           addrMode \in 0..MaxAddrMode, memOk \in BOOLEAN,
                           found \in Dirs \cup {"bugcheck", "NULL"} :
          EvtIoDeviceControl(r, d, code, addrMode, memOk, found)

SpecCtl == InitCtl /\ [][NextCtl]_vars

\* a control request on a node that has no engine-bound queue
CtlWithoutEngine(r) ==
    /\ req[r].op = "control"
    /\ req[r].pc # "idle"
    /\ file[req[r].node].queue \notin Dirs

\* C18: a control request on a node without an engine-bound queue is
\* completed once with InvalidParameter for every control code and performs
\* no engine operation; on an engine-bound node a control code the switch
\* does not name is completed once with NotSupported
C18_ControlWithoutEngineRejected ==
    \A r \in Requests :
        /\ CtlWithoutEngine(r) =>
              /\ req[r].pc = "ret"
              /\ req[r].completions = 1
              /\ req[r].cstatus = "STATUS_INVALID_PARAMETER"
              /\ ~req[r].engineOp
        /\ (req[r].op = "control" /\ req[r].pc # "idle"
              /\ file[req[r].node].queue \in Dirs /\ req[r].code = "IOCTL_OTHER") =>
              /\ req[r].pc = "ret"
              /\ req[r].completions = 1
              /\ req[r].cstatus = "STATUS_NOT_SUPPORTED"
              /\ ~req[r].engineOp


\* a control request with the given code that was completed with success
CtlSucceeded(r, code) ==
    /\ req[r].op = "control"
    /\ req[r].code = code
    /\ req[r].completions = 1
    /\ req[r].cstatus = "STATUS_SUCCESS"

\* the value of the ADMA_CTRL_NON_INCR_ADDR bit of an engine
ControlBit(e) == IF eng[e].nonIncr THEN 1 ELSE 0

\* C25 (as claimed): when IOCTL_ADMA_ADDRMODE_SET with value v has completed
\* with success the control bit is set iff v is nonzero and
\* engine->addressMode equals the bit; an IOCTL_ADMA_ADDRMODE_GET that
\* completed with success has returned the bit in a ULONG, and after it
\* engine->addressMode equals the bit as well
C25_AddressModeMirrorsControlBit ==
    \A r \in Requests :
        /\ CtlSucceeded(r, "IOCTL_ADMA_ADDRMODE_SET") =>
              /\ eng[EngineOf(r)].nonIncr <=> (req[r].arg # 0)
              /\ eng[EngineOf(r)].addressMode = ControlBit(EngineOf(r))
        /\ CtlSucceeded(r, "IOCTL_ADMA_ADDRMODE_GET") =>
              /\ req[r].out = <<ControlBit(EngineOf(r))>>
              /\ req[r].info = SizeofUlong
              /\ eng[EngineOf(r)].addressMode = ControlBit(EngineOf(r))

\* C25 (amended): when IOCTL_ADMA_ADDRMODE_SET with value v has completed
\* with success the control bit is set iff v is nonzero and
\* engine->addressMode holds v itself; an IOCTL_ADMA_ADDRMODE_GET that
\* completed with success has returned the bit in a ULONG; and the bit and
\* engine->addressMode change in no step but a successful set, which leaves
\* addressMode nonzero iff the bit is set (a get writes neither)
C25_AddressModeHoldsValueSet ==
    /\ [](\A r \in Requests :
             /\ CtlSucceeded(r, "IOCTL_ADMA_ADDRMODE_SET") =>
                   /\ eng[EngineOf(r)].nonIncr <=> (req[r].arg # 0)
                   /\ eng[EngineOf(r)].addressMode = req[r].arg
             /\ CtlSucceeded(r, "IOCTL_ADMA_ADDRMODE_GET") =>
                   /\ req[r].out = <<ControlBit(EngineOf(r))>>
                   /\ req[r].info = SizeofUlong)
    /\ [][\A e \in Dirs :
             \/ /\ eng'[e].addressMode = eng[e].addressMode
                /\ eng'[e].nonIncr = eng[e].nonIncr
             \/ /\ \E r \in Requests :
                      /\ req[r].pc = "idle"
                      /\ req'[r].code = "IOCTL_ADMA_ADDRMODE_SET"
                      /\ req'[r].cstatus = "STATUS_SUCCESS"
                      /\ file[req'[r].node].queue = e
                /\ (eng'[e].addressMode # 0) <=> eng'[e].nonIncr]_vars

\* C25 witness: a set with the largest value has completed: the bit is set
\* and engine->addressMode holds the value, not the bit
C25_Witness ==
    \E r \in Requests :
        /\ CtlSucceeded(r, "IOCTL_ADMA_ADDRMODE_SET")
        /\ req[r].arg = MaxAddrMode
        /\ eng[EngineOf(r)].nonIncr
        /\ eng[EngineOf(r)].addressMode = MaxAddrMode
        /\ ControlBit(EngineOf(r)) # eng[EngineOf(r)].addressMode

=============================================================================
